---- MODULE Spec2Model ----
(***************************************************************************)
(* Model of app.py, a Streamlit finance tracker.  One session: the list    *)
(* st.session_state.transactions, the sidebar widgets, and what the last   *)
(* script run rendered.  Every user interaction re-runs the script top to  *)
(* bottom; a button reads True only in the run its own press triggered.    *)
(* Amounts are integers in cents (the form's step is 0.01 and the          *)
(* dashboard prints two decimals).  Texts are sequences of one-character   *)
(* strings; "NL" stands for the newline and "BT" for the backtick.            *)
(***************************************************************************)
EXTENDS Integers, Sequences, FiniteSets, TLC

VARIABLES transactions, api_key, view, uploaded, ev, resp, screen

vars == <<transactions, api_key, view, uploaded, ev, resp, screen>>

\* ---------------------------------------------------------------- bounds
MaxTx == 3
MaxItems == 2

\* ------------------------------------------------------------- constants
Views == {"Dashboard", "Log Expense", "Receipt Scanner"}

Categories == {"Food", "Transport", "Tech", "Utilities", "Other"}

\* min_value of the amount field, 0.01, in cents
MinAmount == 1

\* Python's None, also what a JSON null becomes
None == "None"

\* ------------------------------------------------- inputs the user types
FormDescs == {"Coffee"}

TypedAmounts == {0, 500}

\* options of the category selectbox the user picks among
FormCats == {c \in Categories : c \in {"Food", "Transport"}}

FormDates == {"2024-03-01"}

\* ------------------------------------------------ the receipt collaborator
\* One-character item literals: each stands for the text of one JSON object
\* with the four fields the prompt asks for ("b" and "c" carry a null date).
ItemToks == {"a", "b", "c", "d"}

ItemOf(tok) ==
    CASE tok = "a" -> [description |-> "Coffee", amount |-> 450,
                       category |-> "food", date |-> "2024-03-01"]
      [] tok = "b" -> [description |-> "", amount |-> 1000,
                       category |-> "Food", date |-> None]
      [] tok = "c" -> [description |-> "Taxi", amount |-> -500,
                       category |-> "Transport", date |-> None]
      [] tok = "d" -> [description |-> "Gadget", amount |-> 9999,
                       category |-> "Weird", date |-> "not-a-date"]

\* "K" is the text of a JSON object whose values are lists (one column per
\* field, one row); "7" and "0" are JSON numbers; "x" is not JSON.
ColumnsTok == "K"

ColumnsRows == <<ItemOf("d")>>

NumToks == {"0", "7"}

NumOf(tok) == IF tok = "0" THEN 0 ELSE 7

Whitespace == {" ", "NL"}

RECURSIVE Join(_)
Join(toks) ==
    IF toks = <<>> THEN <<>>
    ELSE IF Len(toks) = 1 THEN <<toks[1]>>
    ELSE <<toks[1], ",">> \o Join(Tail(toks))

ArrayText(toks) == <<"[">> \o Join(toks) \o <<"]">>

ItemOrder == <<"a", "b", "c", "d">>

\* The arrays tried: up to MaxItems distinct literals, in the order above
TokSeqs ==
    UNION {{[i \in 1..n |-> ItemOrder[g[i]]] :
                g \in {f \in [1..n -> 1..Len(ItemOrder)] :
                          \A i \in 1..(n - 1) : f[i] < f[i + 1]}} :
           n \in 0..MaxItems}

JsonFenceOpen == <<"BT", "BT", "BT", "j", "s", "o", "n">>

PlainFence == <<"BT", "BT", "BT">>

Bare(body) == body

JsonFenced(body) == JsonFenceOpen \o <<"NL">> \o body \o <<"NL">> \o PlainFence

PlainFenced(body) == PlainFence \o <<"NL">> \o body \o <<"NL">> \o PlainFence

ArrayTexts == {ArrayText(ts) : ts \in TokSeqs}

NonArrayTexts == {<<"a">>, <<ColumnsTok>>, <<"7">>, <<"0">>}

BadTexts == {<<"x">>, <<"[", "a">>, <<"[", "a", ",", "]">>, <<>>}

Bodies == ArrayTexts \cup NonArrayTexts \cup BadTexts

Texts ==
    {Bare(b) : b \in Bodies} \cup {JsonFenced(b) : b \in Bodies}
        \cup {PlainFenced(b) : b \in ArrayTexts}

\* What model.generate_content does: returns a text, or raises.
Raised == [ok |-> FALSE, text |-> <<>>]

NotCalled == [ok |-> TRUE, text |-> <<"-">>]

Responses == {[ok |-> TRUE, text |-> t] : t \in Texts} \cup {Raised}

AdviceOutcomes == {"text", "raise"}

\* ------------------------------------------------------ Python str methods
RECURSIVE LStrip(_)
LStrip(s) ==
    IF s # <<>> /\ s[1] \in Whitespace THEN LStrip(Tail(s)) ELSE s

RECURSIVE RStrip(_)
RStrip(s) ==
    IF s # <<>> /\ s[Len(s)] \in Whitespace
    THEN RStrip(SubSeq(s, 1, Len(s) - 1)) ELSE s

Strip(s) == RStrip(LStrip(s))

StartsWith(s, p) == Len(s) >= Len(p) /\ SubSeq(s, 1, Len(p)) = p

EndsWith(s, p) ==
    Len(s) >= Len(p) /\ SubSeq(s, Len(s) - Len(p) + 1, Len(s)) = p

\* s[n:]
DropFirst(s, n) == SubSeq(s, n + 1, Len(s))

\* s[:-n]
DropLast(s, n) == SubSeq(s, 1, Len(s) - n)

\* ------------------------------------------------------------- json.loads
\* Python values: a list of rows, a dict of scalars (one JSON object), a
\* dict of lists, a number.
PyList(rows) == [kind |-> "list", rows |-> rows, n |-> 0]

PyDict(row) == [kind |-> "dict", rows |-> <<row>>, n |-> 0]

PyCols(rows) == [kind |-> "cols", rows |-> rows, n |-> 0]

PyNum(n) == [kind |-> "num", rows |-> <<>>, n |-> n]

\* The elements of an array body: literals separated by single commas.
RECURSIVE ElementsOK(_)
ElementsOK(s) ==
    /\ s # <<>>
    /\ s[1] \in ItemToks
    /\ \/ Len(s) = 1
       \/ Len(s) >= 3 /\ s[2] = "," /\ ElementsOK(DropFirst(s, 2))

RECURSIVE Elements(_)
Elements(s) ==
    IF s = <<>> THEN <<>>
    ELSE IF Len(s) = 1 THEN <<ItemOf(s[1])>>
    ELSE <<ItemOf(s[1])>> \o Elements(DropFirst(s, 2))

\* json.loads: the parsed value, or raised = TRUE (JSONDecodeError).
JsonLoads(text) ==
    LET s == Strip(text)
        inner == SubSeq(s, 2, Len(s) - 1)
        bad == [raised |-> TRUE, value |-> PyList(<<>>)]
        ok(v) == [raised |-> FALSE, value |-> v]
    IN  IF s = <<>> THEN bad
        ELSE IF Len(s) = 1 /\ s[1] \in ItemToks THEN ok(PyDict(ItemOf(s[1])))
        ELSE IF Len(s) = 1 /\ s[1] = ColumnsTok THEN ok(PyCols(ColumnsRows))
        ELSE IF Len(s) = 1 /\ s[1] \in NumToks THEN ok(PyNum(NumOf(s[1])))
        ELSE IF Len(s) >= 2 /\ s[1] = "[" /\ s[Len(s)] = "]"
                /\ (inner = <<>> \/ ElementsOK(inner))
             THEN ok(PyList(Elements(inner)))
        ELSE bad

\* ------------------------------------------------- analyze_receipt_image
\* Lines 50-54: strip, drop a leading ```json, drop a trailing ```.
CleanText(text) ==
    LET t0 == Strip(text)
        t1 == IF StartsWith(t0, JsonFenceOpen)
              THEN DropFirst(t0, Len(JsonFenceOpen)) ELSE t0
        t2 == IF EndsWith(t1, PlainFence)
              THEN DropLast(t1, Len(PlainFence)) ELSE t1
    IN  t2

\* The value returned, and whether the except branch ran (st.error shown).
analyze_receipt_image(r) ==
    LET parsed == JsonLoads(CleanText(r.text))
    IN  IF ~r.ok \/ parsed.raised
        THEN [value |-> PyList(<<>>), error |-> TRUE]
        ELSE [value |-> parsed.value, error |-> FALSE]

\* `if items:` -- Python truthiness of the returned value
Truthy(v) ==
    CASE v.kind = "list" -> v.rows # <<>>
      [] v.kind = "num" -> v.n # 0
      [] OTHER -> TRUE

\* pd.DataFrame(items): rows, or ValueError for scalars and dicts of scalars
DataFrame(v) ==
    IF v.kind \in {"list", "cols"}
    THEN [raised |-> FALSE, rows |-> v.rows]
    ELSE [raised |-> TRUE, rows |-> <<>>]

\* st.data_editor: the frame as rendered, or the user's edit of it (edited
\* holds the edited rows, or nothing when the user changed nothing)
data_editor(rows, edited) == IF edited = <<>> THEN rows ELSE edited[1]

\* edited_df.to_dict('records')
to_dict_records(rows) == rows

\* ------------------------------------------------ get_dashboard_insights
\* The prompt embeds json.dumps(data): the whole list.  No try/except: a
\* failing generate_content leaves the function by exception.
get_dashboard_insights(data, outcome) ==
    [payload |-> data, raised |-> outcome = "raise"]

\* ------------------------------------------------------------- the script
\* Variant: Analyze Receipt keeps reading True in the runs triggered from
\* inside its block, as if its press were remembered in the session.
ButtonReads_sticky(label, pressed) ==
    \/ pressed = label
    \/ label = "Analyze Receipt" /\ pressed \in {"Save These Items", "editor"}

\* A button reads True only in the run its own press triggered.
ButtonReads(label, pressed) == pressed = label

\* What one script run rendered.  total, count, payload and saved hold one
\* element when the run rendered them and none when it did not.
Blank ==
    [warning |-> FALSE, notice |-> "none", uncaught |-> FALSE,
     total |-> <<>>, count |-> <<>>, byCat |-> <<>>,
     insightsButton |-> FALSE, payload |-> <<>>,
     form |-> FALSE, uploader |-> FALSE, analyzeButton |-> FALSE,
     reading |-> FALSE, aiError |-> FALSE, items |-> <<>>, saveButton |-> FALSE, saved |-> <<>>]

\* df['amount'].sum()
RECURSIVE SumAmounts(_)
SumAmounts(txs) ==
    IF txs = <<>> THEN 0 ELSE txs[1].amount + SumAmounts(Tail(txs))

\* The rows of one category, in order
RECURSIVE OfCategory(_, _)
OfCategory(txs, c) ==
    IF txs = <<>> THEN <<>>
    ELSE IF txs[1].category = c THEN <<txs[1]>> \o OfCategory(Tail(txs), c)
    ELSE OfCategory(Tail(txs), c)

\* Variant: one bar per category showing its last row only
ByCategory_last(txs) ==
    [c \in {txs[i].category : i \in 1..Len(txs)} |->
        OfCategory(txs, c)[Len(OfCategory(txs, c))].amount]

\* st.bar_chart(df, x="category", y="amount"): one bar per category value
\* in the data, the rows of a category stacked on each other.
ByCategory(txs) ==
    [c \in {txs[i].category : i \in 1..Len(txs)} |->
        SumAmounts(OfCategory(txs, c))]

\* Lines 80-110
DashboardView(pressed, txs, outcome) ==
    IF Len(txs) > 0
    THEN LET shown == [Blank EXCEPT !.total = <<SumAmounts(txs)>>,
                                    !.count = <<Len(txs)>>,
                                    !.byCat = ByCategory(txs),
                                    !.insightsButton = TRUE]
             res == get_dashboard_insights(txs, outcome)
         IN  IF ButtonReads("Generate New Insights", pressed)
             THEN IF res.raised
                  THEN [tx |-> txs,
                        screen |-> [shown EXCEPT !.payload = <<res.payload>>,
                                                 !.uncaught = TRUE]]
                  ELSE [tx |-> txs,
                        screen |-> [shown EXCEPT !.payload = <<res.payload>>,
                                                 !.notice = "Analysis Complete!"]]
             ELSE [tx |-> txs, screen |-> shown]
    ELSE [tx |-> txs, screen |-> [Blank EXCEPT !.notice = "No data yet"]]

\* Variant: the amount field without its minimum
number_input_nomin(typed) == typed

\* st.number_input(min_value=0.01): an entry below the minimum is refused
\* and the field stays at its default, the minimum.
number_input(typed) == IF typed < MinAmount THEN MinAmount ELSE typed

\* Variant: the new transaction inserted at the head of the list
LogExpenseView_prepend(pressed, txs, new_tx) ==
    IF ButtonReads("Add Expense", pressed)
    THEN [tx |-> <<new_tx>> \o txs,
          screen |-> [Blank EXCEPT !.form = TRUE,
                                   !.notice = "Added successfully!"]]
    ELSE [tx |-> txs, screen |-> [Blank EXCEPT !.form = TRUE]]

\* Lines 113-130
LogExpenseView(pressed, txs, new_tx) ==
    IF ButtonReads("Add Expense", pressed)
    THEN [tx |-> Append(txs, new_tx),
          screen |-> [Blank EXCEPT !.form = TRUE,
                                   !.notice = "Added successfully!"]]
    ELSE [tx |-> txs, screen |-> [Blank EXCEPT !.form = TRUE]]

\* Lines 133-156
ReceiptScannerView(pressed, txs, upl, r, edited) ==
    LET closed == [Blank EXCEPT !.uploader = TRUE]
        open == [closed EXCEPT !.analyzeButton = TRUE]
        res == analyze_receipt_image(r)
        items == res.value
        \* the spinner "AI is reading the receipt..." wraps the call
        seen == [open EXCEPT !.reading = TRUE, !.aiError = res.error]
        df == DataFrame(items)
        edited_df == data_editor(df.rows, edited)
        editor == [seen EXCEPT !.items = edited_df, !.saveButton = TRUE]
        new_items == to_dict_records(edited_df)
    IN  IF ~upl THEN [tx |-> txs, screen |-> closed]
        ELSE IF ~ButtonReads("Analyze Receipt", pressed)
        THEN [tx |-> txs, screen |-> open]
        ELSE IF ~Truthy(items) THEN [tx |-> txs, screen |-> seen]
        ELSE IF df.raised
        THEN [tx |-> txs, screen |-> [seen EXCEPT !.uncaught = TRUE]]
        ELSE IF ButtonReads("Save These Items", pressed)
        THEN [tx |-> txs \o new_items,
              screen |-> [editor EXCEPT !.notice = "Saved",
                                        !.saved = <<Len(new_items)>>]]
        ELSE [tx |-> txs, screen |-> editor]

\* Lines 75-156: the part of a run below the sidebar
Main(pressed, txs, key, v, upl, new_tx, r, edited, outcome) ==
    IF ~key THEN [tx |-> txs, screen |-> [Blank EXCEPT !.warning = TRUE]]
    ELSE CASE v = "Dashboard" -> DashboardView(pressed, txs, outcome)
           [] v = "Log Expense" -> LogExpenseView(pressed, txs, new_tx)
           [] v = "Receipt Scanner" ->
                ReceiptScannerView(pressed, txs, upl, r, edited)

NoTx == [description |-> "", amount |-> MinAmount, category |-> "Food",
         date |-> ""]

\* A run in which no button reads True
Rerun(txs, key, v, upl) ==
    Main("none", txs, key, v, upl, NoTx, Raised, <<>>, "text")

\* ------------------------------------------------------------------ state
Init ==
    /\ transactions = <<>>
    /\ api_key = FALSE
    /\ view = "Dashboard"
    /\ uploaded = FALSE
    /\ ev = "start"
    /\ resp = NotCalled
    /\ screen = Rerun(<<>>, FALSE, "Dashboard", FALSE).screen

\* The user types or erases the key (line 21)
EnterKey ==
    /\ api_key' = ~api_key
    /\ ev' = "key"
    /\ resp' = NotCalled
    \* without a key the run stops at line 77 and the uploader's file is
    \* dropped with the widget
    /\ uploaded' = (api_key' /\ uploaded)
    /\ screen' = Rerun(transactions, api_key', view, uploaded').screen
    /\ UNCHANGED <<transactions, view>>

\* The user picks a view (line 24)
Navigate ==
    \E v \in Views \ {view} :
        /\ view' = v
        /\ ev' = "navigate"
        /\ resp' = NotCalled
        \* the uploader's file is dropped with the widget
        /\ uploaded' = FALSE
        /\ screen' = Rerun(transactions, api_key, v, FALSE).screen
        /\ UNCHANGED <<transactions, api_key>>

\* The user chooses or removes a file (line 137)
Upload ==
    /\ screen.uploader
    /\ uploaded' = ~uploaded
    /\ ev' = "upload"
    /\ resp' = NotCalled
    /\ screen' = Rerun(transactions, api_key, view, uploaded').screen
    /\ UNCHANGED <<transactions, api_key, view>>

\* Variant: the empty list bound to a local name, the session's list kept
ClearAllData_local ==
    /\ ev' = "Clear All Data"
    /\ resp' = NotCalled
    /\ screen' = Rerun(transactions, api_key, view, uploaded).screen
    /\ UNCHANGED <<transactions, api_key, view, uploaded>>

\* Lines 27-29: empty the list, then st.rerun()
ClearAllData ==
    /\ transactions' = <<>>
    /\ ev' = "Clear All Data"
    /\ resp' = NotCalled
    /\ screen' = Rerun(<<>>, api_key, view, uploaded).screen
    /\ UNCHANGED <<api_key, view, uploaded>>

\* Lines 116-130
AddExpense ==
    /\ screen.form
    /\ Len(transactions) < MaxTx
    /\ \E desc \in FormDescs, typed \in TypedAmounts, cat \in FormCats,
          date \in FormDates :
        LET new_tx == [description |-> desc, amount |-> number_input(typed),
                       category |-> cat, date |-> date]
            run == Main("Add Expense", transactions, api_key, view, uploaded,
                        new_tx, Raised, <<>>, "text")
        IN  /\ transactions' = run.tx
            /\ screen' = run.screen
    /\ ev' = "Add Expense"
    /\ resp' = NotCalled
    /\ UNCHANGED <<api_key, view, uploaded>>

\* Lines 143-150
AnalyzeReceipt ==
    /\ screen.analyzeButton
    /\ \E r \in Responses :
        LET run == Main("Analyze Receipt", transactions, api_key, view,
                        uploaded, NoTx, r, <<>>, "text")
        IN  /\ Len(run.tx) <= MaxTx
            /\ transactions' = run.tx
            /\ screen' = run.screen
            /\ resp' = IF run.screen.reading THEN r ELSE NotCalled
    /\ ev' = "Analyze Receipt"
    /\ UNCHANGED <<api_key, view, uploaded>>

\* The rows a user can leave in the editor: any of the literals' rows
EditedRows == {<<ItemOf(t)>> : t \in ItemToks}

\* What the collaborator would answer in a run that follows an analysis
LaterResponses ==
    {Raised, [ok |-> TRUE, text |-> <<ColumnsTok>>],
     [ok |-> TRUE, text |-> ArrayText(<<"a", "c">>)]}

\* The user changes a cell of the editor (line 150): a run of its own
EditItems ==
    /\ screen.saveButton
    /\ \E rows \in EditedRows, r \in LaterResponses :
        LET run == Main("editor", transactions, api_key, view, uploaded,
                        NoTx, r, <<rows>>, "text")
        IN  /\ Len(run.tx) <= MaxTx
            /\ transactions' = run.tx
            /\ screen' = run.screen
            /\ resp' = IF run.screen.reading THEN r ELSE NotCalled
    /\ ev' = "editor"
    /\ UNCHANGED <<api_key, view, uploaded>>

\* The user presses Save These Items (line 152): a run of its own
SaveTheseItems ==
    /\ screen.saveButton
    /\ \E r \in LaterResponses :
        LET run == Main("Save These Items", transactions, api_key, view,
                        uploaded, NoTx, r, <<>>, "text")
        IN  /\ Len(run.tx) <= MaxTx
            /\ transactions' = run.tx
            /\ screen' = run.screen
            /\ resp' = IF run.screen.reading THEN r ELSE NotCalled
    /\ ev' = "Save These Items"
    /\ UNCHANGED <<api_key, view, uploaded>>

\* Lines 104-108
GenerateInsights ==
    /\ screen.insightsButton
    /\ \E outcome \in AdviceOutcomes :
        LET run == Main("Generate New Insights", transactions, api_key, view,
                        uploaded, NoTx, Raised, <<>>, outcome)
        IN  /\ transactions' = run.tx
            /\ screen' = run.screen
    /\ ev' = "Generate New Insights"
    /\ resp' = NotCalled
    /\ UNCHANGED <<api_key, view, uploaded>>

Next ==
    \/ EnterKey
    \/ Navigate
    \/ Upload
    \/ ClearAllData
    \/ AddExpense
    \/ AnalyzeReceipt
    \/ EditItems
    \/ SaveTheseItems
    \/ GenerateInsights

Spec == Init /\ [][Next]_vars

\* ----------------------------------------------------------------- claims
IsPrefix(s, t) == Len(s) <= Len(t) /\ SubSeq(t, 1, Len(s)) = s

\* C1: in every reachable state every stored transaction has amount > 0
\* and a category of the closed set.
C1_LedgerValid ==
    \A i \in 1..Len(transactions) :
        /\ transactions[i].amount > 0
        /\ transactions[i].category \in Categories

\* C1 witness: Save These Items was pressed on a displayed batch while the
\* list holds a transaction entered with the smallest accepted amount.
C1_Witness ==
    /\ ev = "Save These Items"
    /\ \E i \in 1..Len(transactions) : transactions[i].amount = MinAmount

\* The response is not a JSON array after the code's fence stripping, or
\* the call raised.
Unparsable(r) ==
    \/ ~r.ok
    \/ JsonLoads(CleanText(r.text)).raised
    \/ JsonLoads(CleanText(r.text)).value.kind # "list"

\* C2: a run that receives an unparsable extraction leaves the list as it
\* was, and so does every Save or edit run made on what that run displayed.
C2_BadBatchDiscarded ==
    [][/\ (resp' # NotCalled /\ Unparsable(resp'))
            => transactions' = transactions
       /\ (resp # NotCalled /\ Unparsable(resp)
             /\ ev' \in {"Save These Items", "editor"})
            => transactions' = transactions]_vars

\* C2 witness: a non-array JSON value was analysed, its rows are on display
\* with the Save button, and the list (non-empty) is what it was.
C2_Witness ==
    /\ ev = "Analyze Receipt"
    /\ resp.ok /\ Unparsable(resp)
    /\ screen.saveButton
    /\ transactions # <<>>

RowsOf(toks) == [i \in 1..Len(toks) |-> ItemOf(toks[i])]

\* C3: for a JSON array text, analyze_receipt_image returns the parsed list
\* whether the text is bare, fenced with ```json, or fenced with ``` alone.
C3_FenceVariantsAgree ==
    \A toks \in TokSeqs :
        (/\ ev = "Analyze Receipt"
         /\ resp.ok
         /\ resp.text \in {Bare(ArrayText(toks)), JsonFenced(ArrayText(toks)),
                           PlainFenced(ArrayText(toks))})
            => analyze_receipt_image(resp).value = PyList(RowsOf(toks))

\* An item the normalizer keeps: non-empty description, positive amount.
Keeps(item) == item.description \notin {"", None} /\ item.amount > 0

RECURSIVE Kept(_)
Kept(items) ==
    IF items = <<>> THEN <<>>
    ELSE IF Keeps(items[1]) THEN <<items[1]>> \o Kept(Tail(items))
    ELSE Kept(Tail(items))

\* C4: saving a displayed batch appends exactly its kept items, in order,
\* drops the others, and reports the number appended.
C4_SaveDropsInvalid ==
    [][ev' = "Save These Items" =>
        LET kept == Kept(screen.items)
        IN  /\ IsPrefix(transactions, transactions')
            /\ Len(transactions') = Len(transactions) + Len(kept)
            /\ \A i \in 1..Len(kept) :
                 /\ transactions'[Len(transactions) + i].description
                        = kept[i].description
                 /\ transactions'[Len(transactions) + i].amount
                        = kept[i].amount
            /\ screen'.saved = <<Len(kept)>>]_vars

Today == "2026-11-05"

YMDDates == {"2024-03-01", Today}

LowerOf(c) ==
    CASE c \in {"Food", "food"} -> "food"
      [] c \in {"Transport", "transport"} -> "transport"
      [] c \in {"Tech", "tech"} -> "tech"
      [] c \in {"Utilities", "utilities"} -> "utilities"
      [] c \in {"Other", "other"} -> "other"
      [] OTHER -> c

Canonical(c) ==
    IF \E k \in Categories : LowerOf(k) = LowerOf(c)
    THEN CHOOSE k \in Categories : LowerOf(k) = LowerOf(c)
    ELSE "Other"

\* C5: every kept item of a saved batch is stored with its category mapped
\* case-insensitively into the closed set (else Other) and its date kept
\* when it is YYYY-MM-DD (else the current date).
C5_SaveNormalizes ==
    [][ev' = "Save These Items" =>
        \A i \in 1..Len(screen.items) :
            Keeps(screen.items[i]) =>
                \E j \in (Len(transactions) + 1)..Len(transactions') :
                    /\ transactions'[j].description
                           = screen.items[i].description
                    /\ transactions'[j].category
                           = Canonical(screen.items[i].category)
                    /\ transactions'[j].date
                           = IF screen.items[i].date \in YMDDates
                             THEN screen.items[i].date ELSE Today]_vars

\* C6 as stated: after Clear All Data the list is empty and the total
\* the dashboard reports for it is 0.
C6_ClearReportsZero ==
    (ev = "Clear All Data" /\ api_key /\ view = "Dashboard") =>
        (transactions = <<>> /\ screen.total = <<0>>)

\* C6 amended: after Clear All Data the list is empty and the run that
\* follows ends without an error and reports no total; on the dashboard it
\* shows the "No data yet" notice.
C6_ClearShowsNoData ==
    ev = "Clear All Data" =>
        /\ transactions = <<>>
        /\ screen.total = <<>> /\ screen.count = <<>>
        /\ ~screen.uncaught
        /\ (api_key /\ view = "Dashboard") => screen.notice = "No data yet"

\* C6 witness: the dashboard right after a clear.
C6_Witness ==
    /\ ev = "Clear All Data"
    /\ api_key /\ view = "Dashboard"
    /\ screen.notice = "No data yet"

\* C7: a step that is not Clear All Data keeps the list as a prefix of the
\* new list.
C7_AppendOnly ==
    [][ev' # "Clear All Data" => IsPrefix(transactions, transactions')]_vars

\* C7 witness: an expense was added to a list that already held one of a
\* different amount.
C7_Witness ==
    /\ ev = "Add Expense"
    /\ Len(transactions) >= 2
    /\ transactions[1].amount # transactions[Len(transactions)].amount

RECURSIVE SumOver(_, _)
SumOver(f, S) ==
    IF S = {} THEN 0
    ELSE LET c == CHOOSE x \in S : TRUE IN f[c] + SumOver(f, S \ {c})

\* C8: when the dashboard shows figures, the total is the sum of the bars,
\* the bars are exactly the categories present, and the count is the length
\* of the list.
C8_TotalsAgree ==
    screen.total # <<>> =>
        /\ screen.total[1] = SumOver(screen.byCat, DOMAIN screen.byCat)
        /\ DOMAIN screen.byCat
              = {transactions[i].category : i \in 1..Len(transactions)}
        /\ \A c \in DOMAIN screen.byCat : screen.byCat[c] > 0
        /\ screen.count = <<Len(transactions)>>

\* C8 witness: two transactions of one category and one of another.
C8_Witness ==
    /\ screen.count = <<3>>
    /\ Cardinality(DOMAIN screen.byCat) = 2
    /\ screen.total = <<1001>>

\* C9: Generate New Insights leaves the list unchanged, sends the whole
\* list, and ends without an unhandled error whether or not the call fails.
C9_AdviceNonFatal ==
    [][ev' = "Generate New Insights" =>
        /\ transactions' = transactions
        /\ screen'.payload = <<transactions>>
        /\ ~screen'.uncaught]_vars

\* C10: pressing Save These Items on a displayed non-empty batch appends
\* the displayed items in order and shows the success message.
C10_SaveAppends ==
    [][(ev' = "Save These Items" /\ screen.items # <<>>) =>
        /\ transactions' = transactions \o screen.items
        /\ screen'.notice = "Saved"]_vars

====
